---- MODULE Spec2Model ----
(***************************************************************************)
(* A model of package fileio (src/fileio.go): the client of the File.io    *)
(* service.  One call of Download, Upload or UploadWithExpire runs at a    *)
(* time; each is broken into the steps of its code.  The transport (api)   *)
(* and the service behind it are the environment.                          *)
(*                                                                         *)
(* Encodings.  A Go string is a TLA+ string.  A byte stream (a file's      *)
(* content, a response body) is a sequence of strings.  A value that may   *)
(* be nil or absent is <<>> (None) or <<x>> (Some(x)): an error is None    *)
(* (nil) or Some(text), so that errors.New("") is not nil.                 *)
(***************************************************************************)
EXTENDS Integers, Sequences, FiniteSets, TLC

None == <<>>
Some(x) == <<x>>

(***************************************************************************)
(* Bounds of the model.                                                    *)
(***************************************************************************)
\* Content of the file that exists at the start has MaxLen bytes.
MaxLen == 2
\* Day counts run from -NegDays.
NegDays == 2
\* Largest day count a call is made with in Spec and SpecPair.
MaxCallDays == 1
\* Largest day count of the contiguous range of SpecExpires.
MaxDays == 1000

(***************************************************************************)
(* Program constants.                                                      *)
(***************************************************************************)
DefaultExpires == 14
StatusOK == 200
StatusNotFound == 404
DaysPerWeek == 7
DaysPerMonth == 31
DaysPerYear == 365

DefaultURL == "https://file.io"

(***************************************************************************)
(* strconv.Itoa on a non-negative int, digit by digit.                     *)
(***************************************************************************)
Digits == <<"0", "1", "2", "3", "4", "5", "6", "7", "8", "9">>

RECURSIVE Itoa(_)
Itoa(n) ==
    IF n < 10 THEN Digits[n + 1]
    ELSE Itoa(n \div 10) \o Digits[(n % 10) + 1]

(***************************************************************************)
(* expires: the number of days as the API expects it.                      *)
(***************************************************************************)
\* expires with the default for negative days only.
expiresFromZero(d) ==
    IF d < 0 THEN Itoa(DefaultExpires)
    ELSE IF d % DaysPerWeek = 0 THEN Itoa(d \div DaysPerWeek) \o "w"
    ELSE IF d % DaysPerMonth = 0 THEN Itoa(d \div DaysPerMonth) \o "m"
    ELSE IF d % DaysPerYear = 0 THEN Itoa(d \div DaysPerYear) \o "y"
    ELSE Itoa(d)

\* expires with the units tried from years down to weeks.
expiresYearsFirst(d) ==
    IF d < 1 THEN Itoa(DefaultExpires)
    ELSE IF d % DaysPerYear = 0 THEN Itoa(d \div DaysPerYear) \o "y"
    ELSE IF d % DaysPerMonth = 0 THEN Itoa(d \div DaysPerMonth) \o "m"
    ELSE IF d % DaysPerWeek = 0 THEN Itoa(d \div DaysPerWeek) \o "w"
    ELSE Itoa(d)

expires(d) ==
    IF d < 1 THEN Itoa(DefaultExpires)
    ELSE IF d % DaysPerWeek = 0 THEN Itoa(d \div DaysPerWeek) \o "w"
    ELSE IF d % DaysPerMonth = 0 THEN Itoa(d \div DaysPerMonth) \o "m"
    ELSE IF d % DaysPerYear = 0 THEN Itoa(d \div DaysPerYear) \o "y"
    ELSE Itoa(d)

\* The URL each entry point hands to postBody, and the one Download gets.
UploadURL(base) == base
UploadWithExpireURL(base, d) == base \o "/?expires=" \o expires(d)
DownloadURL(base, k) == base \o "/" \o k

(***************************************************************************)
(* The JSON response bodies of the service, and json.Unmarshal into a      *)
(* Response on each of them.                                               *)
(***************************************************************************)
TheKey == "2ojE41"

BodySuccess == <<"{\"success\":true,\"key\":\"2ojE41\"}">>
BodySuccessExpiry == <<"{\"success\":true,\"key\":\"2ojE41\",\"expiry\":\"7 days\"}">>
BodyNotFound == <<"{\"success\":false,\"error\":404,\"message\":\"Not Found\"}">>
BodyInternal == <<"{\"success\":false,\"error\":500,\"message\":\"Internal error\"}">>
BodyEmpty == <<>>
BodyNoKey == <<"{\"success\":true}">>
BodyNoMessage == <<"{\"success\":false,\"key\":\"2ojE41\"}">>
BodyHTML == <<"<html>">>

\* The zero Response.
ZeroResponse == [Success |-> FALSE, Code |-> 0, Err |-> "", Expiry |-> "", Key |-> ""]

\* json.Unmarshal(data, res) on a zero res: the error and res afterwards.
Unmarshal(data) ==
    CASE data = BodySuccess ->
           [err |-> None, res |-> [ZeroResponse EXCEPT !.Success = TRUE, !.Key = TheKey]]
      [] data = BodySuccessExpiry ->
           [err |-> None,
            res |-> [ZeroResponse EXCEPT !.Success = TRUE, !.Key = TheKey, !.Expiry = "7 days"]]
      [] data = BodyNotFound ->
           [err |-> None, res |-> [ZeroResponse EXCEPT !.Code = 404, !.Err = "Not Found"]]
      [] data = BodyInternal ->
           [err |-> None, res |-> [ZeroResponse EXCEPT !.Code = 500, !.Err = "Internal error"]]
      [] data = BodyNoKey ->
           [err |-> None, res |-> [ZeroResponse EXCEPT !.Success = TRUE]]
      [] data = BodyNoMessage ->
           [err |-> None, res |-> [ZeroResponse EXCEPT !.Key = TheKey]]
      [] data = BodyEmpty ->
           [err |-> Some("unexpected end of JSON input"), res |-> ZeroResponse]
      [] data = BodyHTML ->
           [err |-> Some("invalid character '<' looking for beginning of value"),
            res |-> ZeroResponse]
      [] OTHER ->
           [err |-> Some("invalid character"), res |-> ZeroResponse]

\* errors.New(res.Err)
ServiceError(res) == Some(res.Err)

\* parseJSON without the test of res.Success.
parseJSONUnchecked(data) ==
    LET u == Unmarshal(data) IN
    IF u.err # None THEN [res |-> u.res, err |-> u.err]
    ELSE [res |-> u.res, err |-> None]

\* parseJSON: the Response and the error.
parseJSON(data) ==
    LET u == Unmarshal(data) IN
    IF u.err # None THEN [res |-> u.res, err |-> u.err]
    ELSE IF ~u.res.Success THEN [res |-> u.res, err |-> ServiceError(u.res)]
    ELSE [res |-> u.res, err |-> None]

\* What Upload returns from postBody's result.
UploadReturn(r, e) ==
    IF e # None THEN [key |-> "", expiry |-> "", err |-> e]
    ELSE [key |-> r.Key, expiry |-> "", err |-> None]

\* UploadWithExpire returning the two strings in the other order.
UploadWithExpireSwapped(r, e) ==
    IF e # None THEN [key |-> "", expiry |-> "", err |-> e]
    ELSE [key |-> r.Expiry, expiry |-> r.Key, err |-> None]

\* What UploadWithExpire returns from postBody's result.
UploadWithExpireReturn(r, e) ==
    IF e # None THEN [key |-> "", expiry |-> "", err |-> e]
    ELSE [key |-> r.Key, expiry |-> r.Expiry, err |-> None]

(***************************************************************************)
(* The multipart form: the buffer is a sequence of tokens.                 *)
(***************************************************************************)
Boundaries == {"b1", "b2"}

Delimiter(b) == [kind |-> "delimiter", name |-> b, val |-> ""]
PartHeader(field, filename) == [kind |-> "header", name |-> field, val |-> filename]
DataToken(byte) == [kind |-> "data", name |-> "", val |-> byte]
CloseDelimiter(b) == [kind |-> "close", name |-> b, val |-> ""]

\* w.CreateFormFile(fieldname, filename) on buffer buf.
CreateFormFile(buf, b, field, filename) ==
    buf \o <<Delimiter(b), PartHeader(field, filename)>>

\* io.Copy(fw, f): the bytes of the file go into the part.
CopyToPart(buf, data) == buf \o [i \in 1..Len(data) |-> DataToken(data[i])]

\* The deferred w.Close(): the closing boundary.
WriterClose(buf, b) == Append(buf, CloseDelimiter(b))

\* w.FormDataContentType()
FormDataContentType(b) == "multipart/form-data; boundary=" \o b

\* The service's reading of a request body, the reverse of what createBody
\* writes: the file part when the body is a complete form of one part, None
\* otherwise.
FormFile(buf, ct) ==
    IF /\ Len(buf) >= 3
       /\ buf[1].kind = "delimiter"
       /\ ct = "multipart/form-data; boundary=" \o buf[1].name
       /\ buf[2].kind = "header"
       /\ buf[Len(buf)] = CloseDelimiter(buf[1].name)
       /\ \A i \in 3..(Len(buf) - 1) : buf[i].kind = "data"
    THEN Some([field |-> buf[2].name,
               filename |-> buf[2].val,
               data |-> [i \in 1..(Len(buf) - 3) |-> buf[i + 2].val]])
    ELSE None

\* A copy that loses the last byte it was given.
CopyToFileShort(data, n) == SubSeq(data, 1, n - 1)

(***************************************************************************)
(* io.Copy(out, resp.Body) of Download: n bytes get through.               *)
(***************************************************************************)
CopyToFile(data, n) == SubSeq(data, 1, n)

(***************************************************************************)
(* The environment's sets.                                                 *)
(***************************************************************************)
Alphabet == <<"a", "b", "c", "d", "e">>
FileData == [i \in 1..MaxLen |-> Alphabet[i]]

Paths == {"test.txt", "test2.txt"}
Keys == {TheKey, "not_exists"}
BaseURLs == {DefaultURL, ""}
CallDays == (0 - NegDays)..MaxCallDays
ExpireDays ==
    ((0 - NegDays)..MaxDays)
        \cup {DaysPerWeek * DaysPerYear, DaysPerMonth * DaysPerYear,
              DaysPerWeek * DaysPerMonth * DaysPerYear}

\* Bodies with which the service answers an upload it stored.
StoredBodies == {BodySuccess, BodySuccessExpiry}
\* Bodies with which the service answers an upload it did not store.
RefusedBodies ==
    {BodyNotFound, BodyInternal, BodyEmpty, BodyHTML, BodyNoKey, BodyNoMessage}

Response(code, status, b) == [StatusCode |-> code, Status |-> status, Body |-> b]

VARIABLES
    URL,        \* the package variable URL
    fs,         \* the local files: path -> None or Some(content)
    store,      \* the service: key -> None or Some([data, src])
    pc,         \* the place of the running call
    op,         \* the function called
    file,       \* its argument file
    key,        \* Download's argument key
    days,       \* UploadWithExpire's argument days
    url,        \* the URL of the call's request
    w,          \* the boundary of createBody's multipart writer
    body,       \* createBody's buffer
    bodyType,   \* the content type createBody returns
    src,        \* what createBody read from the file (None before)
    reqs,       \* the requests the call handed to the transport
    resp,       \* the response: None or Some(Response)
    rs,         \* postBody's result: None (nil) or Some(Response)
    open,       \* the handles that are open
    acquired,   \* the handles the call has opened
    closed,     \* the handles the call has closed
    retKey, retExpiry, retErr,   \* what the call returns
    fs0,        \* the local files when the call started
    prev        \* the call completed before this one (SpecPair)

vars == <<URL, fs, store, pc, op, file, key, days, url, w, body, bodyType, src,
          reqs, resp, rs, open, acquired, closed, retKey, retExpiry, retErr, fs0, prev>>

world == <<URL, fs, store>>
args == <<op, file, key, days, url>>
form == <<w, body, bodyType, src>>
handles == <<open, acquired, closed>>
rets == <<retKey, retExpiry, retErr>>

Request(method) == [method |-> method, url |-> url, bodyType |-> bodyType, body |-> body]

\* The locals of a call that has not started.
NoCall ==
    /\ w = "" /\ body = <<>> /\ bodyType = "" /\ src = None
    /\ reqs = <<>> /\ resp = None /\ rs = None
    /\ open = {} /\ acquired = {} /\ closed = {}
    /\ retKey = "" /\ retExpiry = "" /\ retErr = None

Init ==
    /\ URL = DefaultURL
    /\ fs = [p \in Paths |-> IF p = "test.txt" THEN Some(FileData) ELSE None]
    /\ store = [k \in Keys |-> None]
    /\ pc = "idle" /\ op = "" /\ file = "" /\ key = "" /\ days = 0 /\ url = ""
    /\ NoCall
    /\ fs0 = fs
    /\ prev = None

\* The caller sets the package variable between calls.
SetURL ==
    /\ pc = "idle"
    /\ \E u \in BaseURLs : u # URL /\ URL' = u
    /\ UNCHANGED <<fs, store, pc, args, form, reqs, resp, rs, handles, rets, fs0, prev>>

(***************************************************************************)
(* The deferred calls of each function: the handles they close on return.  *)
(***************************************************************************)
\* Download without the deferred out.Close().
DownloadDeferredBodyOnly == {"resp.Body"}

DownloadDeferred == {"resp.Body", "out"}
createBodyDeferred == {"f"}
postBodyDeferred == {"resp.Body"}

RunDeferred(D) ==
    /\ open' = open \ D
    /\ closed' = closed \cup (open \cap D)

Acquire(h) ==
    /\ open' = open \cup {h}
    /\ acquired' = acquired \cup {h}
    /\ closed' = closed

(***************************************************************************)
(* Download(key, file)                                                     *)
(***************************************************************************)
CallDownload ==
    /\ pc = "idle"
    /\ \E k \in Keys, f \in Paths :
         /\ op' = "Download" /\ key' = k /\ file' = f /\ days' = 0
         /\ url' = DownloadURL(URL, k)
    /\ pc' = "Get"
    /\ fs0' = fs
    /\ UNCHANGED <<world, form, reqs, resp, rs, handles, rets, prev>>

\* The responses the transport may give to a GET of key k.
GetResponses(k) ==
    {Response(StatusNotFound, "Not Found", BodyNotFound),
     Response(StatusNotFound, "404 Not Found", BodyNotFound)}
        \cup (IF store[k] # None
              THEN {Response(StatusOK, "200 OK", store[k][1].data)}
              ELSE {})

\* resp, err = api.Get(URL + "/" + key)
DoGet ==
    /\ pc = "Get"
    /\ reqs' = Append(reqs, Request("GET"))
    /\ \/ /\ retErr' = Some("No transport")
          /\ pc' = "done"
          /\ UNCHANGED <<resp, handles>>
       \/ /\ \E r \in GetResponses(key) : resp' = Some(r)
          /\ Acquire("resp.Body")
          /\ pc' = "CheckStatus"
          /\ UNCHANGED retErr
    /\ UNCHANGED <<world, args, form, rs, retKey, retExpiry, fs0, prev>>

\* The status tested after os.Create(file) instead of before it.
CheckStatusAfterCreate ==
    /\ pc = "CheckStatus"
    /\ IF resp[1].StatusCode # StatusOK
       THEN /\ retErr' = Some(resp[1].Status)
            /\ fs' = [fs EXCEPT ![file] = Some(<<>>)]
            /\ RunDeferred(DownloadDeferred)
            /\ pc' = "done"
       ELSE /\ pc' = "Create"
            /\ UNCHANGED <<fs, retErr, open, closed>>
    /\ UNCHANGED <<URL, store, args, form, reqs, resp, rs, acquired, retKey, retExpiry, fs0, prev>>

\* if resp.StatusCode != http.StatusOK { err = errors.New(resp.Status); return }
CheckStatus ==
    /\ pc = "CheckStatus"
    /\ IF resp[1].StatusCode # StatusOK
       THEN /\ retErr' = Some(resp[1].Status)
            /\ RunDeferred(DownloadDeferred)
            /\ pc' = "done"
       ELSE /\ pc' = "Create"
            /\ UNCHANGED <<retErr, open, closed>>
    /\ UNCHANGED <<world, args, form, reqs, resp, rs, acquired, retKey, retExpiry, fs0, prev>>

\* out, err = os.Create(file): the file is created or truncated, or the
\* creation fails.
Create ==
    /\ pc = "Create"
    /\ \/ /\ retErr' = Some("open " \o file \o ": permission denied")
          /\ RunDeferred(DownloadDeferred)
          /\ pc' = "done"
          /\ UNCHANGED <<fs, acquired>>
       \/ /\ fs' = [fs EXCEPT ![file] = Some(<<>>)]
          /\ Acquire("out")
          /\ pc' = "Copy"
          /\ UNCHANGED retErr
    /\ UNCHANGED <<URL, store, args, form, reqs, resp, rs, retKey, retExpiry, fs0, prev>>

\* _, err = io.Copy(out, resp.Body): the whole body, or a part of it and an
\* error; then the deferred closes.
Copy ==
    /\ pc = "Copy"
    /\ \E n \in 0..Len(resp[1].Body) :
         /\ fs' = [fs EXCEPT ![file] = Some(fs[file][1] \o CopyToFile(resp[1].Body, n))]
         /\ retErr' = IF n = Len(resp[1].Body) THEN None ELSE Some("unexpected EOF")
    /\ RunDeferred(DownloadDeferred)
    /\ pc' = "done"
    /\ UNCHANGED <<URL, store, args, form, reqs, resp, rs, acquired, retKey, retExpiry, fs0, prev>>

(***************************************************************************)
(* Upload(file) and UploadWithExpire(file, days)                           *)
(***************************************************************************)
CallUpload ==
    /\ pc = "idle"
    /\ \E f \in Paths :
         /\ op' = "Upload" /\ file' = f /\ key' = "" /\ days' = 0
         /\ url' = UploadURL(URL)
    /\ pc' = "createBody"
    /\ fs0' = fs
    /\ UNCHANGED <<world, form, reqs, resp, rs, handles, rets, prev>>

CallUploadWithExpire ==
    /\ pc = "idle"
    /\ \E f \in Paths, d \in CallDays :
         /\ op' = "UploadWithExpire" /\ file' = f /\ key' = "" /\ days' = d
         /\ url' = UploadWithExpireURL(URL, d)
    /\ pc' = "createBody"
    /\ fs0' = fs
    /\ UNCHANGED <<world, form, reqs, resp, rs, handles, rets, prev>>

\* What the entry point returns from postBody's result.
EntryReturn(r, e) ==
    IF op = "Upload" THEN UploadReturn(r, e) ELSE UploadWithExpireReturn(r, e)

\* postBody returns (r, e) and the entry point returns to its caller.
ReturnUpload(r, e) ==
    /\ rs' = r
    /\ retKey' = EntryReturn(IF r = None THEN ZeroResponse ELSE r[1], e).key
    /\ retExpiry' = EntryReturn(IF r = None THEN ZeroResponse ELSE r[1], e).expiry
    /\ retErr' = EntryReturn(IF r = None THEN ZeroResponse ELSE r[1], e).err
    /\ pc' = "done"

\* w := multipart.NewWriter(body); fw, err := w.CreateFormFile("file", file)
\* The boundary is drawn at random.  The write goes to a bytes.Buffer, which
\* returns no error: the err != nil branch is never taken.
NewFormFile ==
    /\ pc = "createBody"
    /\ \E b \in Boundaries :
         /\ w' = b
         /\ body' = CreateFormFile(<<>>, b, "file", file)
    /\ pc' = "Open"
    /\ UNCHANGED <<world, args, bodyType, src, reqs, resp, rs, handles, rets, fs0, prev>>

\* The request sent before the file is opened.
OpenAfterPost ==
    /\ pc = "Open"
    /\ IF fs[file] = None
       THEN /\ ReturnUpload(None, Some("open " \o file \o ": no such file or directory"))
            /\ reqs' = Append(reqs, [method |-> "POST", url |-> url,
                                     bodyType |-> bodyType, body |-> body])
            /\ body' = <<>>
            /\ UNCHANGED handles
       ELSE /\ Acquire("f")
            /\ pc' = "CopyFile"
            /\ UNCHANGED <<body, reqs, rs, rets>>
    /\ UNCHANGED <<world, args, w, bodyType, src, resp, fs0, prev>>

\* f, err := os.Open(file).  On an error createBody returns nil and postBody
\* and the entry point return the error.
Open ==
    /\ pc = "Open"
    /\ IF fs[file] = None
       THEN /\ ReturnUpload(None, Some("open " \o file \o ": no such file or directory"))
            /\ body' = <<>>
            /\ UNCHANGED handles
       ELSE /\ Acquire("f")
            /\ pc' = "CopyFile"
            /\ UNCHANGED <<body, rs, rets>>
    /\ UNCHANGED <<world, args, w, bodyType, src, reqs, resp, fs0, prev>>

\* io.Copy(fw, f), the deferred f.Close() and w.Close(), and the return to
\* postBody: the read of the file may fail.
CopyFile ==
    /\ pc = "CopyFile"
    /\ \/ /\ ReturnUpload(None, Some("read " \o file \o ": input/output error"))
          /\ body' = <<>>
          /\ UNCHANGED <<bodyType, src>>
       \/ /\ body' = WriterClose(CopyToPart(body, fs[file][1]), w)
          /\ bodyType' = FormDataContentType(w)
          /\ src' = Some(fs[file][1])
          /\ pc' = "Post"
          /\ UNCHANGED <<rs, rets>>
    /\ RunDeferred(createBodyDeferred)
    /\ UNCHANGED <<world, args, w, reqs, resp, acquired, fs0, prev>>

\* The status with which the service sends a body.
StatusOf(b) ==
    IF b = BodyNotFound THEN Response(StatusNotFound, "404 Not Found", b)
    ELSE Response(StatusOK, "200 OK", b)

\* Post with the request sent again after the transport's error.
PostRetried ==
    /\ pc = "Post"
    /\ \/ /\ ReturnUpload(None, Some("No transport"))
          /\ reqs' = reqs \o <<Request("POST"), Request("POST")>>
          /\ UNCHANGED <<store, resp, handles>>
       \/ /\ \E b \in RefusedBodies : resp' = Some(StatusOf(b))
          /\ reqs' = Append(reqs, Request("POST"))
          /\ Acquire("resp.Body")
          /\ pc' = "ReadAll"
          /\ UNCHANGED <<store, rs, rets>>
    /\ UNCHANGED <<URL, fs, args, form, fs0, prev>>

\* resp, err := api.Post(url, bodyType, body): no answer, or the service
\* stores the file of the form and answers with its key, or it answers
\* without storing.
Post ==
    /\ pc = "Post"
    /\ reqs' = Append(reqs, Request("POST"))
    /\ \/ /\ ReturnUpload(None, Some("No transport"))
          /\ UNCHANGED <<store, resp, handles>>
       \/ /\ FormFile(body, bodyType) # None
          /\ \E b \in StoredBodies : resp' = Some(StatusOf(b))
          /\ store' = [store EXCEPT ![TheKey] =
                          Some([data |-> FormFile(body, bodyType)[1].data, src |-> src[1]])]
          /\ Acquire("resp.Body")
          /\ pc' = "ReadAll"
          /\ UNCHANGED <<rs, rets>>
       \/ /\ \E b \in RefusedBodies : resp' = Some(StatusOf(b))
          /\ Acquire("resp.Body")
          /\ pc' = "ReadAll"
          /\ UNCHANGED <<store, rs, rets>>
    /\ UNCHANGED <<URL, fs, args, form, fs0, prev>>

\* rs, err := ioutil.ReadAll(resp.Body); return parseJSON(rs), with the
\* deferred resp.Body.Close(): the read may fail.
ReadAll ==
    /\ pc = "ReadAll"
    /\ \/ ReturnUpload(None, Some("unexpected EOF"))
       \/ ReturnUpload(Some(parseJSON(resp[1].Body).res), parseJSON(resp[1].Body).err)
    /\ RunDeferred(postBodyDeferred)
    /\ UNCHANGED <<world, args, form, reqs, resp, acquired, fs0, prev>>

(***************************************************************************)
(* The call has returned; the caller goes on.                              *)
(***************************************************************************)
Forget ==
    /\ pc' = "idle" /\ op' = "" /\ file' = "" /\ key' = "" /\ days' = 0 /\ url' = ""
    /\ w' = "" /\ body' = <<>> /\ bodyType' = "" /\ src' = None
    /\ reqs' = <<>> /\ resp' = None /\ rs' = None
    /\ open' = {} /\ acquired' = {} /\ closed' = {}
    /\ retKey' = "" /\ retExpiry' = "" /\ retErr' = None
    /\ fs0' = fs
    /\ UNCHANGED world

Return ==
    /\ pc = "done"
    /\ Forget
    /\ UNCHANGED prev

\* The same, the caller keeping what the call did to compare it with the
\* next one.
Completed ==
    [base |-> URL, op |-> op, file |-> file, days |-> days, src |-> src, reqs |-> reqs,
     resp |-> resp, rs |-> rs, key |-> retKey, expiry |-> retExpiry, err |-> retErr]

ReturnKept ==
    /\ pc = "done"
    /\ Forget
    /\ prev' = Some(Completed)

Next ==
    \/ SetURL
    \/ CallDownload \/ DoGet \/ CheckStatus \/ Create \/ Copy
    \/ CallUpload \/ CallUploadWithExpire
    \/ NewFormFile \/ Open \/ CopyFile \/ Post \/ ReadAll
    \/ Return

Spec == Init /\ [][Next]_vars

(***************************************************************************)
(* Uploads one after the other, the caller keeping the last one: the test  *)
(* loops of TestUpload and TestUploadWithExpire.                           *)
(***************************************************************************)
NextPair ==
    \/ SetURL
    \/ CallUpload \/ CallUploadWithExpire
    \/ NewFormFile \/ Open \/ CopyFile \/ Post \/ ReadAll
    \/ ReturnKept

SpecPair == Init /\ [][NextPair]_vars

(***************************************************************************)
(* One call UploadWithExpire(file, days) for each days of ExpireDays.      *)
(***************************************************************************)
InitExpires ==
    /\ URL = DefaultURL
    /\ fs = [p \in Paths |-> IF p = "test.txt" THEN Some(FileData) ELSE None]
    /\ store = [k \in Keys |-> None]
    /\ pc = "createBody" /\ op = "UploadWithExpire" /\ file = "test.txt" /\ key = ""
    /\ days \in ExpireDays
    /\ url = UploadWithExpireURL(URL, days)
    /\ NoCall
    /\ fs0 = fs
    /\ prev = None

NextExpires == NewFormFile \/ Open \/ CopyFile \/ Post \/ ReadAll

SpecExpires == InitExpires /\ [][NextExpires]_vars

(***************************************************************************)
(* The claims.                                                             *)
(***************************************************************************)
IsUpload == op \in {"Upload", "UploadWithExpire"}

\* The units of the encoding in the order of the claim: weeks, months, years.
Units == <<[every |-> 7, suffix |-> "w"], [every |-> 31, suffix |-> "m"],
           [every |-> 365, suffix |-> "y"]>>
Dividing(d) == {i \in 1..Len(Units) : d % Units[i].every = 0}
InUnit(d, i) == ToString(d \div Units[i].every) \o Units[i].suffix

\* The reference of C1: the first unit of the order that divides d.
RefEncoding(d) ==
    IF d < 1 THEN "14"
    ELSE IF Dividing(d) = {} THEN ToString(d)
    ELSE InUnit(d, CHOOSE i \in Dividing(d) : \A j \in Dividing(d) : i <= j)

\* The examples of C1.
Examples == [d \in {7, 217, 31, 730, 12, 999} |->
               CASE d = 7 -> "1w" [] d = 217 -> "31w" [] d = 31 -> "1m"
                 [] d = 730 -> "2y" [] d = 12 -> "12" [] d = 999 -> "999"]

\* C1: for every days, expires(days) is the reference encoding ("14" below 1,
\* else the first of weeks, months, years that divides days, else the plain
\* number), the examples included, and UploadWithExpire(file, days) sends
\* exactly this string as the expires value of the URL it posts to.
C1_ExpiresIsReference ==
    op = "UploadWithExpire" =>
        /\ expires(days) = RefEncoding(days)
        /\ days \in DOMAIN Examples => expires(days) = Examples[days]
        /\ url = URL \o "/?expires=" \o RefEncoding(days)
        /\ \A i \in 1..Len(reqs) :
             /\ reqs[i].method = "POST"
             /\ reqs[i].url = URL \o "/?expires=" \o RefEncoding(days)

C1_Witness ==
    /\ op = "UploadWithExpire" /\ days = 730
    /\ Len(reqs) = 1
    /\ reqs[1].url = "https://file.io/?expires=2y"

\* The encoding of d in the coarsest, and in the finest, unit that divides it.
CoarsestEncoding(d) ==
    InUnit(d, CHOOSE i \in Dividing(d) :
                 \A j \in Dividing(d) : Units[i].every >= Units[j].every)
FinestEncoding(d) ==
    InUnit(d, CHOOSE i \in Dividing(d) :
                 \A j \in Dividing(d) : Units[i].every <= Units[j].every)

\* C2 as claimed: for every days >= 1 that 7, 31 or 365 divides, the
\* encoding sent is in the coarsest unit that divides days (years before
\* months before weeks).
C2_CoarsestUnit ==
    (op = "UploadWithExpire" /\ days >= 1 /\ Dividing(days) # {}) =>
        \A i \in 1..Len(reqs) : reqs[i].url = URL \o "/?expires=" \o CoarsestEncoding(days)

\* C2 amended: for every days >= 1 that 7, 31 or 365 divides, the encoding
\* sent is in the finest unit that divides days (weeks before months before
\* years).
C2_FinestUnit ==
    (op = "UploadWithExpire" /\ days >= 1 /\ Dividing(days) # {}) =>
        /\ expires(days) = FinestEncoding(days)
        /\ url = URL \o "/?expires=" \o FinestEncoding(days)
        /\ \A i \in 1..Len(reqs) : reqs[i].url = URL \o "/?expires=" \o FinestEncoding(days)

C2_Witness ==
    /\ op = "UploadWithExpire" /\ days = 217
    /\ Cardinality(Dividing(days)) = 2
    /\ Len(reqs) = 1
    /\ reqs[1].url = "https://file.io/?expires=31w"

(***************************************************************************)
(* C3: a call and the one before it, an Upload(file) and an                *)
(* UploadWithExpire(file, d) with d < 1, in the same environment: the same *)
(* base URL, the same content read from the file, as many requests, the    *)
(* same answer of the transport and the same outcome of reading it.        *)
(***************************************************************************)
DefaultPair ==
    /\ pc = "done"
    /\ prev # None
    /\ \/ prev[1].op = "Upload" /\ op = "UploadWithExpire" /\ days < 1
       \/ prev[1].op = "UploadWithExpire" /\ prev[1].days < 1 /\ op = "Upload"
    /\ prev[1].file = file
    /\ prev[1].base = URL
    /\ prev[1].src = src
    /\ Len(prev[1].reqs) = Len(reqs)
    /\ prev[1].resp = resp
    /\ (prev[1].rs = None) <=> (rs = None)

\* The request of the Upload and of the UploadWithExpire of a pair.
PairUpload == IF op = "Upload" THEN reqs[1] ELSE prev[1].reqs[1]
PairWithExpire == IF op = "Upload" THEN prev[1].reqs[1] ELSE reqs[1]

\* C3 as claimed: Upload(file) issues the same POST request (same URL, same
\* body) and returns the same key and the same error as
\* UploadWithExpire(file, d), d < 1, whatever the transport does.
C3_SameRequestAndResult ==
    DefaultPair =>
        /\ prev[1].reqs = reqs
        /\ prev[1].key = retKey
        /\ prev[1].err = retErr

\* C3 amended: Upload(file) posts to the base URL itself, without an
\* expires value, and UploadWithExpire(file, d), d < 1, to
\* <base>/?expires=14; both requests carry the same form (the part "file",
\* the file's name and all its bytes), and when the transport answers both
\* the same way the two calls return the same key and the same error.
C3_SameFormAndResult ==
    DefaultPair =>
        /\ prev[1].key = retKey
        /\ prev[1].err = retErr
        /\ Len(reqs) = 1 =>
             /\ PairUpload.method = "POST" /\ PairWithExpire.method = "POST"
             /\ PairUpload.url = URL
             /\ PairWithExpire.url = URL \o "/?expires=14"
             /\ FormFile(PairUpload.body, PairUpload.bodyType) # None
             /\ FormFile(PairUpload.body, PairUpload.bodyType)
                  = FormFile(PairWithExpire.body, PairWithExpire.bodyType)

C3_Witness ==
    /\ DefaultPair
    /\ prev[1].op = "Upload" /\ days = 0
    /\ Len(reqs) = 1
    /\ reqs[1].body # prev[1].reqs[1].body
    /\ resp # None /\ resp[1].Body = BodySuccessExpiry
    /\ retErr = None /\ retKey = TheKey /\ prev[1].key = TheKey

\* C4: when the source file of Upload or UploadWithExpire cannot be opened,
\* the call returns the file-open error with an empty key, and no request
\* is handed to the transport at any point of the call, whatever the base
\* URL is.
C4_NoRequestWithoutFile ==
    (IsUpload /\ fs0[file] = None) =>
        /\ reqs = <<>>
        /\ resp = None
        /\ pc = "done" =>
             /\ retErr = Some("open " \o file \o ": no such file or directory")
             /\ retKey = "" /\ retExpiry = ""

C4_Witness ==
    /\ pc = "done" /\ op = "UploadWithExpire" /\ file = "test2.txt"
    /\ fs0[file] = None
    /\ URL = ""
    /\ retErr = Some("open test2.txt: no such file or directory")
    /\ reqs = <<>>

\* C5: for every response whose status code is not 200, Download(key, file)
\* returns an error whose text is the response's status ("Not Found" for
\* the 404 of the test's transport), and the local files are as they were
\* when the call started: the destination is not created, truncated or
\* written.
C5_NotOKLeavesFiles ==
    (pc = "done" /\ op = "Download" /\ resp # None /\ resp[1].StatusCode # StatusOK) =>
        /\ retErr = Some(resp[1].Status)
        /\ fs = fs0

C5_Witness ==
    /\ pc = "done" /\ op = "Download"
    /\ resp # None /\ resp[1].StatusCode = 404 /\ resp[1].Status = "Not Found"
    /\ retErr = Some("Not Found")
    /\ fs0[file] = Some(FileData) /\ fs[file] = Some(FileData)

\* The parse error of each body that is not valid JSON, and the message of
\* each body that decodes with success = false.
ParseError ==
    [b \in {BodyEmpty, BodyHTML} |->
        IF b = BodyEmpty THEN "unexpected end of JSON input"
        ELSE "invalid character '<' looking for beginning of value"]
FailureMessage ==
    [b \in {BodyNotFound, BodyInternal, BodyNoMessage} |->
        IF b = BodyNotFound THEN "Not Found"
        ELSE IF b = BodyInternal THEN "Internal error" ELSE ""]
SuccessBodies == {BodySuccess, BodySuccessExpiry, BodyNoKey}

\* The call read the whole response body.
BodyRead == pc = "done" /\ IsUpload /\ resp # None /\ rs # None

\* C6: Upload and UploadWithExpire return a key only when the response body
\* is valid JSON with success = true; a body that is not valid JSON (the
\* empty one included) gives the JSON parse error, a body with
\* success = false gives an error whose text is the service's message, and
\* in both cases the key and the expiry returned are empty and the error is
\* not nil.
C6_KeyOnlyOnSuccess ==
    /\ (IsUpload /\ retKey # "") => (BodyRead /\ resp[1].Body \in SuccessBodies)
    /\ (BodyRead /\ resp[1].Body \in DOMAIN ParseError) =>
          /\ retErr = Some(ParseError[resp[1].Body])
          /\ retKey = "" /\ retExpiry = ""
    /\ (BodyRead /\ resp[1].Body \in DOMAIN FailureMessage) =>
          /\ retErr = Some(FailureMessage[resp[1].Body])
          /\ retErr # None
          /\ retKey = "" /\ retExpiry = ""

C6_Witness ==
    /\ BodyRead /\ op = "Upload"
    /\ resp[1].Body = BodyNoMessage
    /\ retErr = Some("") /\ retKey = ""

\* C7: every call of Upload or UploadWithExpire ends with an error or with
\* a non-empty key: when the error returned is nil the key is not empty,
\* for every response body.
C7_KeyWhenNoError ==
    (pc = "done" /\ IsUpload /\ retErr = None) => retKey # ""

\* The places of a call in the order of its code.
Rank ==
    [p \in {"idle", "Get", "CheckStatus", "Create", "Copy",
            "createBody", "Open", "CopyFile", "Post", "ReadAll", "done"} |->
       CASE p = "idle" -> 0
         [] p \in {"Get", "createBody"} -> 1
         [] p \in {"CheckStatus", "Open"} -> 2
         [] p \in {"Create", "CopyFile"} -> 3
         [] p \in {"Copy", "Post"} -> 4
         [] p = "ReadAll" -> 5
         [] p = "done" -> 6]

\* C8 as claimed: every call has issued exactly one request when it
\* returns, whatever its outcome.
C8_ExactlyOneRequest == pc = "done" => Len(reqs) = 1

\* The upload stopped while building its body.
BodyNotBuilt == IsUpload /\ src = None

\* C8 amended: every call issues at most one request, a POST for an upload
\* and a GET for a download, and has issued exactly one when it returns,
\* except the upload whose body could not be built (the file could not be
\* opened or read), which issues none; a request is never repeated and the
\* call only moves forward through its steps until it returns.
C8_OneRequestUnlessNoBody ==
    /\ [](/\ Len(reqs) <= 1
          /\ \A i \in 1..Len(reqs) :
               reqs[i].method = (IF op = "Download" THEN "GET" ELSE "POST")
          /\ pc = "done" => Len(reqs) = (IF BodyNotBuilt THEN 0 ELSE 1)
          /\ pc # "idle" => ENABLED (DoGet \/ CheckStatus \/ Create \/ Copy \/ NewFormFile
                                       \/ Open \/ CopyFile \/ Post \/ ReadAll \/ Return))
    /\ [][/\ pc' # pc => (Rank[pc'] > Rank[pc] \/ pc = "done")
          /\ pc # "done" => Len(reqs') >= Len(reqs)]_vars

C8_Witness ==
    /\ pc = "done" /\ op = "Upload"
    /\ Len(reqs) = 1 /\ resp = None
    /\ retErr = Some("No transport")

\* C9: the round trip.  Every body handed to the transport is a complete
\* form of one part "file" with the file's name and all the bytes of the
\* source; the service holds those bytes under the key it answered with;
\* and a Download of that key that succeeds leaves the destination with
\* exactly the bytes of the uploaded source.
C9_RoundTrip ==
    /\ \A i \in 1..Len(reqs) :
         reqs[i].method = "POST" =>
            FormFile(reqs[i].body, reqs[i].bodyType)
               = Some([field |-> "file", filename |-> file, data |-> fs[file][1]])
    /\ \A k \in Keys : store[k] # None => store[k][1].data = store[k][1].src
    /\ (pc = "done" /\ op = "Download" /\ retErr = None) =>
          /\ store[key] # None
          /\ fs[file] = Some(store[key][1].src)

C9_Witness ==
    /\ pc = "done" /\ op = "Download" /\ retErr = None
    /\ file = "test2.txt" /\ fs0[file] = None
    /\ fs[file] = Some(FileData)
    /\ fs["test.txt"] = Some(FileData)
    /\ Len(FileData) >= 2

\* C10: when a call returns, on every exit path, every handle it opened is
\* closed: no file and no response body stays open, each was closed exactly
\* if it was opened, and a response body was opened exactly if the
\* transport gave a response.
C10_AllReleased ==
    /\ open \subseteq acquired
    /\ closed \subseteq acquired
    /\ ("resp.Body" \in acquired) <=> (resp # None)
    /\ pc \in {"done", "idle"} => (open = {} /\ closed = acquired)
    /\ (IsUpload /\ pc \in {"Post", "ReadAll"}) => "f" \notin open

C10_Witness ==
    /\ pc = "done" /\ op = "Download"
    /\ retErr = Some("unexpected EOF")
    /\ acquired = {"resp.Body", "out"}
    /\ open = {}

====
